---- MODULE Spec2Model ----
(***************************************************************************)
(* Sports-betting tracker: the ticket/leg store and the three pages that   *)
(* write to it (New Bet, ticket edit page, dashboard).                     *)
(* Also the pure calculation helpers, the two steps of the dashboard's      *)
(* quick-settle, and the auth storage adapter with the login page.         *)
(*                                                                         *)
(* Money is kept in whole cents (1 dollar = 100), so round2 of a value     *)
(* that is already in cents is the value itself; a typed manual payout is  *)
(* kept in mills (1 dollar = 1000) so that round2 really rounds.           *)
(* Arithmetic is exact: IEEE-754 effects of the JavaScript doubles are not *)
(* modelled.  Timestamps are local calendar days (every placed_at the      *)
(* pages write is a local midnight).  book and notes are not modelled.     *)
(***************************************************************************)
EXTENDS Integers, Sequences, FiniteSets, TLC

\* ---------------------------------------------------------------- bounds
MaxTickets == 2
MaxStored == 1
MaxLegs == 2
MaxDay == 2

\* ------------------------------------------------------------- constants
Null == -99999999
UnitStep == 50
UnitCap == 10000

TicketIds == 1..MaxTickets
Days == 1..MaxDay
\* "now": the first day of the current calendar month, earlier days belong
\* to the previous month
Today == MaxDay
MonthStart == MaxDay

TicketStatus == {"open", "won", "lost", "push", "void", "partial"}
LegStatus == {"open", "won", "lost", "push", "void"}
TicketType == {"single", "parlay"}
Leagues == {"NBA", "NFL"}
QuickStatuses == {"won", "lost", "push", "void"}

\* --------------------------------------------------------- pure helpers
\* Math.round(n / d) for d > 0: floor(n/d + 1/2)
RoundDiv(n, d) == (2 * n + d) \div (2 * d)

\* rounding to whole dollars: Math.round(n)
round2Dollars(m) == RoundDiv(m, 1000) * 100

\* round2 of an amount given in mills (Math.round(n * 100) / 100), in cents
round2(m) == RoundDiv(m, 10)

\* the numbers that are not finite
NaN == 99999991
PosInfinity == 99999992
NegInfinity == -99999992
NumberIsFinite(x) == x \notin {NaN, PosInfinity, NegInfinity}
Abs(x) == IF x < 0 THEN 0 - x ELSE x

\* what a call that throws yields in place of a number
Throws == <<0, 0>>

\* a product of two numbers held as fractions, in lowest terms
RECURSIVE GCD(_, _)
GCD(a, b) == IF b = 0 THEN a ELSE GCD(b, a % b)
FracMul(a, b) ==
  LET n == a[1] * b[1]
      d == a[2] * b[2]
      g == GCD(n, d)
  IN <<n \div g, d \div g>>

\* decimal odds as a fraction <<numerator, denominator>>
americanToDecimalNoAbs(american) ==
  IF ~NumberIsFinite(american) \/ american = 0 THEN Throws
  ELSE IF american > 0 THEN <<100 + american, 100>>
  ELSE <<100 + american, 100>>
americanToDecimalFlat(american) ==
  IF ~NumberIsFinite(american) \/ american = 0 THEN Throws
  ELSE IF american > 0 THEN <<100 + american, 100>>
  ELSE <<200, 100>>
americanToDecimal(american) ==
  IF ~NumberIsFinite(american) \/ american = 0 THEN Throws
  ELSE IF american > 0 THEN <<100 + american, 100>>
  ELSE <<Abs(american) + 100, Abs(american)>>

mapTicketStatusToLegStatus(s) ==
  IF s = "won" THEN "won"
  ELSE IF s = "lost" THEN "lost"
  ELSE IF s = "push" THEN "push"
  ELSE IF s = "void" THEN "void"
  ELSE "open"

\* the open rule tried before the lost rule
DerivedParlayStatusOpenFirst(ls) ==
  IF ~(\A i \in DOMAIN ls : ls[i].status # "open") THEN "open"
  ELSE IF \E i \in DOMAIN ls : ls[i].status = "lost" THEN "lost"
  ELSE IF \A i \in DOMAIN ls : ls[i].status \in {"void", "push"} THEN "push"
  ELSE IF \E i \in DOMAIN ls : ls[i].status = "won" THEN "won"
  ELSE "push"

\* derivedParlayStatus of a leg list (same body on New Bet and edit page)
DerivedParlayStatus(ls) ==
  IF \E i \in DOMAIN ls : ls[i].status = "lost" THEN "lost"
  ELSE IF ~(\A i \in DOMAIN ls : ls[i].status # "open") THEN "open"
  ELSE IF \A i \in DOMAIN ls : ls[i].status \in {"void", "push"} THEN "push"
  ELSE IF \E i \in DOMAIN ls : ls[i].status = "won" THEN "won"
  ELSE "push"

\* legs.reduce(...) of the won branch: product of the decimal odds of the
\* legs that are neither push nor void, as a fraction
RECURSIVE WinMultiplier(_)
WinMultiplier(ls) ==
  IF ls = <<>> THEN <<1, 1>>
  ELSE LET rest == WinMultiplier(Tail(ls))
           l == Head(ls)
       IN IF l.status \in {"push", "void"} THEN rest
          ELSE LET dec == americanToDecimal(l.american_odds)
               IN FracMul(dec, rest)

\* round2(stake * multiplier), stake in cents, multiplier a fraction
WonPayoutFloor(stake, mult) == (stake * mult[1]) \div mult[2]
WonPayout(stake, mult) == RoundDiv(stake * mult[1], mult[2])

\* the loop of the `multiplier` memo over the legs of a parlay: the product
\* of the decimal odds of the legs that are neither push nor void, Throws as
\* soon as such a leg has odds that are zero or not finite
\* a loop that multiplies the odds of every leg, push and void included
RECURSIVE LoopMultiplierAll(_)
LoopMultiplierAll(ls) ==
  IF ls = <<>> THEN <<1, 1>>
  ELSE LET l == ls[Len(ls)]
           m == LoopMultiplierAll(SubSeq(ls, 1, Len(ls) - 1))
       IN IF m = Throws THEN Throws
          ELSE IF ~NumberIsFinite(l.american_odds) \/ l.american_odds = 0 THEN Throws
          ELSE LET dec == americanToDecimal(l.american_odds)
               IN FracMul(m, dec)

RECURSIVE LoopMultiplier(_)
LoopMultiplier(ls) ==
  IF ls = <<>> THEN <<1, 1>>
  ELSE LET l == ls[Len(ls)]
           m == LoopMultiplier(SubSeq(ls, 1, Len(ls) - 1))
       IN IF m = Throws THEN Throws
          ELSE IF l.status \in {"push", "void"} THEN m
          ELSE IF ~NumberIsFinite(l.american_odds) \/ l.american_odds = 0 THEN Throws
          ELSE LET dec == americanToDecimal(l.american_odds)
               IN FracMul(m, dec)

\* the `multiplier` memo (New Bet page and ticket page): multiplier as a
\* fraction and multiplierValid
multiplier(ticketType, ls) ==
  LET invalid == [multiplier |-> <<1, 1>>, multiplierValid |-> FALSE]
  IN IF ticketType = "single"
     THEN IF Len(ls) # 1 THEN invalid
          ELSE IF ~NumberIsFinite(ls[1].american_odds) \/ ls[1].american_odds = 0
          THEN invalid
          ELSE [multiplier |-> americanToDecimal(ls[1].american_odds),
                multiplierValid |-> TRUE]
     ELSE IF Len(ls) < 2 THEN invalid
     ELSE LET m == LoopMultiplier(ls)
          IN IF m = Throws THEN invalid
             ELSE [multiplier |-> m, multiplierValid |-> m[1] > m[2]]

\* ---------------------------------------------------------------- state
VARIABLES
  tickets,       \* store: ticket id -> ticket row
  legs,          \* store: ticket id -> the legs rows of that ticket, by leg id
  profile,       \* store: starting_bankroll of the user's profile row, Null if none
  page,          \* the page the tab shows: "dash", "new" or "ticket"
  msg,           \* text of the alert the last handler raised, "" if none
  form,          \* New Bet: fields of the last save that inserted a ticket row
                 \* and stayed on the page (NoForm otherwise)
  inserted,      \* New Bet: ids of the ticket rows inserted by saves of `form`
  edit,          \* ticket page: its React state (NoEdit off the page)
  dashTickets,   \* dashboard: the `tickets` state (last loaded rows)
  loading,       \* dashboard: loadTicketsAndLegs in progress
  profileLoading,\* dashboard: loadProfile in progress
  startingBankroll, leagueFilter, preset, customStart, customEnd,
  calcIn,        \* arguments handed to one of the pure helpers (NoCalc if none)
  calcOut,       \* what the helper returned for calcIn (NoCalc before the call)
  quickUpdatingId, \* dashboard: the `quickUpdatingId` state (Null if none)
  inFlight,      \* dashboard: the quick-settle updates sent and not yet answered
  localStorage,  \* window.localStorage of the browser, shared by its tabs
  sessionStorage,\* window.sessionStorage of each tab
  tabs,          \* login page of each tab: where handleSubmit stands
  lastSet,       \* per tab and key, the value of the tab's last setItem that
                 \* no removeItem of the tab followed (NoItem if none)
  got            \* what the last getItem returned (NoGot before any)

vars == <<tickets, legs, profile, page, msg, form, inserted, edit, dashTickets,
          loading, profileLoading, startingBankroll, leagueFilter, preset,
          customStart, customEnd, calcIn, calcOut, quickUpdatingId, inFlight,
          localStorage, sessionStorage, tabs, lastSet, got>>
calcVars == <<calcIn, calcOut>>
quickVars == <<quickUpdatingId, inFlight>>
authVars == <<localStorage, sessionStorage, tabs, lastSet, got>>
otherVars == <<calcVars, quickVars, authVars>>
NoCalc == [tag |-> "none"]

\* the auth storage adapter: the browser's tabs, the key of the storage mode,
\* the keys the auth client stores under, and an absent item (null)
MaxTabs == 2
Tabs == 1..MaxTabs
STORAGE_MODE_KEY == "sb_auth_storage_mode"
AuthKeys == {"sb-auth-token", "sb-auth-token-code-verifier"}
NoItem == "<null>"
NoGot == [key |-> "", value |-> NoItem]
QuickIdle == quickUpdatingId = Null /\ inFlight = <<>>
AuthIdle ==
  /\ localStorage = [k \in AuthKeys \cup {STORAGE_MODE_KEY} |-> NoItem]
  /\ sessionStorage = [t \in Tabs |-> [k \in AuthKeys |-> NoItem]]
  /\ tabs = [t \in Tabs |-> [pc |-> "idle", remember |-> TRUE]]
  /\ lastSet = [t \in Tabs |-> [k \in AuthKeys |-> NoItem]]
  /\ got = NoGot

storeVars == <<tickets, legs, profile>>
newVars == <<form, inserted>>
dashVars == <<dashTickets, loading, profileLoading, startingBankroll,
              leagueFilter, preset, customStart, customEnd>>
filterVars == <<leagueFilter, preset, customStart, customEnd>>

NoTickets == [i \in {} |-> 0]
NoDate == 0
NoForm == [ticketType |-> "none", ticketStatus |-> "open", legs |-> <<>>,
           betInput |-> 0, actualPayout |-> Null, league |-> "",
           placedDate |-> NoDate]
NoEdit == [id |-> 0, ticket_type |-> "none", legs |-> <<>>,
           singleStatus |-> "open", betInput |-> 0, payoutInput |-> Null,
           payoutEdited |-> FALSE, league |-> "", placedDate |-> NoDate]

\* the legs rows of ticket id, ordered by leg id
LegsOf(id) == IF id \in DOMAIN legs THEN legs[id] ELSE <<>>

Init ==
  /\ tickets = NoTickets
  /\ legs = NoTickets
  /\ profile = Null
  /\ page = "dash"
  /\ msg = ""
  /\ form = NoForm
  /\ inserted = {}
  /\ edit = NoEdit
  /\ dashTickets = NoTickets
  /\ loading = TRUE
  /\ profileLoading = TRUE
  /\ startingBankroll = 0
  /\ leagueFilter = "ALL"
  /\ preset = "MTD"
  /\ customStart = 1
  /\ customEnd = Today
  /\ calcIn = NoCalc
  /\ calcOut = NoCalc
  /\ QuickIdle
  /\ AuthIdle

\* mounting the dashboard: fresh React state, both loads start
GoDash ==
  /\ page' = "dash"
  /\ dashTickets' = NoTickets
  /\ loading' = TRUE
  /\ profileLoading' = TRUE
  /\ startingBankroll' = 0
  /\ leagueFilter' = "ALL"
  /\ preset' = "MTD"
  /\ customStart' = 1
  /\ customEnd' = Today

\* leaving the dashboard: its React state is dropped
LeaveDash ==
  /\ dashTickets' = NoTickets
  /\ loading' = FALSE
  /\ profileLoading' = FALSE
  /\ startingBankroll' = 0
  /\ leagueFilter' = "ALL"
  /\ preset' = "MTD"
  /\ customStart' = 1
  /\ customEnd' = Today

\* ------------------------------------------------------------ New Bet page
\* Inputs of a New Bet form.  american_odds 0 stands for every rejected odds
\* text (zero or not a finite number), betInput 0 for every rejected stake,
\* actualPayout Null for the empty field.
OddsInputs == {-110, 120}
BetInputs == {10000}
PayoutInputs == {Null, 150006}

LegDrafts(odds, statuses) ==
  [selection : {"Lakers -2.5"}, american_odds : odds, status : statuses]

\* the forms that pass every check of save.  A single form holds one leg whose
\* status mirrors the ticket status (effect of lines 174-186); the status
\* select of a parlay form is disabled, its value is never read.
SingleForms(odds, leagues, days) ==
  UNION { { [ticketType |-> "single", ticketStatus |-> st, legs |-> <<l>>,
             betInput |-> b, actualPayout |-> ap, league |-> lg,
             placedDate |-> d] :
              l \in LegDrafts(odds, {mapTicketStatusToLegStatus(st)}),
              b \in BetInputs, ap \in PayoutInputs, lg \in leagues, d \in days }
          : st \in TicketStatus }

ParlayForms(odds, leagues, days) ==
  { [ticketType |-> "parlay", ticketStatus |-> "open", legs |-> ls,
     betInput |-> b, actualPayout |-> ap, league |-> lg, placedDate |-> d] :
      ls \in UNION { [1..n -> LegDrafts(odds, LegStatus)] : n \in 2..MaxLegs },
      b \in BetInputs, ap \in PayoutInputs, lg \in leagues, d \in days }

\* one form per check of save that the page can bring about, each a valid
\* form with one field spoilt
BaseSingle ==
  [ticketType |-> "single", ticketStatus |-> "open",
   legs |-> <<[selection |-> "Lakers -2.5", american_odds |-> -110, status |-> "open"]>>,
   betInput |-> 10000, actualPayout |-> Null, league |-> "NBA", placedDate |-> Today]
InvalidForms ==
  { [BaseSingle EXCEPT !.placedDate = NoDate],
    [BaseSingle EXCEPT !.league = ""],
    [BaseSingle EXCEPT !.legs[1].selection = ""],
    [BaseSingle EXCEPT !.ticketType = "parlay"],
    [BaseSingle EXCEPT !.legs[1].american_odds = 0],
    [BaseSingle EXCEPT !.betInput = 0] }

\* the checks of save in their order; "" when the form passes
SaveRejection(f) ==
  IF f.placedDate = NoDate THEN "Please select a date."
  ELSE IF f.league = "" THEN "Please select a league."
  ELSE IF \E i \in DOMAIN f.legs : f.legs[i].selection = ""
    THEN "Please fill all selections."
  ELSE IF f.ticketType = "single" /\ Len(f.legs) # 1
    THEN "Single must have exactly 1 leg."
  ELSE IF f.ticketType = "parlay" /\ Len(f.legs) < 2
    THEN "Parlay must have 2+ legs."
  ELSE IF \E i \in DOMAIN f.legs : f.legs[i].american_odds = 0
    THEN "Invalid odds detected."
  ELSE IF f.betInput <= 0 THEN "Please enter a valid bet amount."
  ELSE ""

derivedParlayStatusNew(f) ==
  IF f.ticketType # "parlay" THEN "null" ELSE DerivedParlayStatus(f.legs)

\* settled_at is "SET_NOW" or "null"
computePayoutProfitForCreate(ticketType, stake, statusToStore, ls, payoutOverride, derived) ==
  IF payoutOverride # Null
  THEN LET payout == round2(payoutOverride)
       IN [payout |-> payout, profit |-> round2(10 * (payout - stake)),
           settled_at |-> IF statusToStore = "open" THEN "null" ELSE "SET_NOW"]
  ELSE IF ticketType = "single"
  THEN IF statusToStore \in {"open", "partial"}
       THEN [payout |-> Null, profit |-> Null, settled_at |-> "null"]
       ELSE IF statusToStore \in {"push", "void"}
       THEN [payout |-> round2(10 * stake), profit |-> 0, settled_at |-> "SET_NOW"]
       ELSE IF statusToStore = "lost"
       THEN [payout |-> 0, profit |-> round2(10 * (0 - stake)), settled_at |-> "SET_NOW"]
       ELSE IF statusToStore = "won"
       THEN LET payout == WonPayout(stake, americanToDecimal(ls[1].american_odds))
            IN [payout |-> payout, profit |-> round2(10 * (payout - stake)),
                settled_at |-> "SET_NOW"]
       ELSE [payout |-> Null, profit |-> Null, settled_at |-> "null"]
  ELSE LET pStatus == IF derived = "null" THEN "open" ELSE derived
       IN IF pStatus = "open"
          THEN [payout |-> Null, profit |-> Null, settled_at |-> "null"]
          ELSE IF pStatus \in {"push", "void"}
          THEN [payout |-> round2(10 * stake), profit |-> 0, settled_at |-> "SET_NOW"]
          ELSE IF pStatus = "lost"
          THEN [payout |-> 0, profit |-> round2(10 * (0 - stake)), settled_at |-> "SET_NOW"]
          ELSE IF pStatus = "won"
          THEN LET payout == WonPayout(stake, WinMultiplier(ls))
               IN [payout |-> payout, profit |-> round2(10 * (payout - stake)),
                   settled_at |-> "SET_NOW"]
          ELSE [payout |-> Null, profit |-> Null, settled_at |-> "null"]

\* the row save inserts for form f
NewTicketRow(f) ==
  LET derived == derivedParlayStatusNew(f)
      statusToStore == IF f.ticketType = "parlay"
                       THEN (IF derived = "null" THEN "open" ELSE derived)
                       ELSE f.ticketStatus
      computed == computePayoutProfitForCreate(f.ticketType, f.betInput,
                     statusToStore, f.legs, f.actualPayout, derived)
  IN [ticket_type |-> f.ticketType, stake |-> f.betInput, league |-> f.league,
      status |-> statusToStore, placed_at |-> f.placedDate,
      payout |-> computed.payout, profit |-> computed.profit,
      settled_at |-> IF computed.settled_at = "SET_NOW" THEN f.placedDate ELSE Null]

legsToInsert(f) ==
  LET row == NewTicketRow(f)
  IN IF f.ticketType = "single"
     THEN [i \in DOMAIN f.legs |->
             [selection |-> f.legs[i].selection,
              american_odds |-> f.legs[i].american_odds,
              status |-> mapTicketStatusToLegStatus(row.status)]]
     ELSE [i \in DOMAIN f.legs |->
             [selection |-> f.legs[i].selection,
              american_odds |-> f.legs[i].american_odds,
              status |-> f.legs[i].status]]

\* the id the store gives the next ticket row
FreeIds == TicketIds \ (DOMAIN tickets \cup DOMAIN legs)
NewId == CHOOSE i \in FreeIds : \A j \in FreeIds : i <= j

InsertRow(store, id, row) ==
  [i \in DOMAIN store \cup {id} |-> IF i = id THEN row ELSE store[i]]
DeleteRow(store, id) ==
  [i \in DOMAIN store \ {id} |-> store[i]]

\* save() of the New Bet page on form f; o is what the store answers:
\* "ok", "ticketErr" (tickets insert fails) or "legsErr" (legs insert fails)
save(f, o) ==
  /\ UNCHANGED otherVars
  /\ page = "new"
  /\ UNCHANGED <<profile, edit>>
  /\ IF SaveRejection(f) # ""
     THEN /\ o = "ok"
          /\ msg' = SaveRejection(f)
          /\ form' = NoForm /\ inserted' = {}
          /\ UNCHANGED <<tickets, legs, page, dashVars>>
     ELSE /\ FreeIds # {}
          /\ \/ /\ o = "ticketErr"
                /\ msg' = "Error saving ticket"
                /\ form' = IF f = form THEN form ELSE NoForm
                /\ inserted' = IF f = form THEN inserted ELSE {}
                /\ UNCHANGED <<tickets, legs, page, dashVars>>
             \/ /\ o = "legsErr"
                /\ tickets' = InsertRow(tickets, NewId, NewTicketRow(f))
                /\ msg' = "Ticket saved, but legs failed to save."
                /\ form' = f
                /\ inserted' = (IF f = form THEN inserted ELSE {}) \cup {NewId}
                /\ UNCHANGED <<legs, page, dashVars>>
             \/ /\ o = "ok"
                /\ tickets' = InsertRow(tickets, NewId, NewTicketRow(f))
                /\ legs' = InsertRow(legs, NewId, legsToInsert(f))
                /\ msg' = ""
                /\ form' = NoForm /\ inserted' = {}
                /\ GoDash

\* the "New Bet" link of the dashboard
OpenNew ==
  /\ UNCHANGED otherVars
  /\ page = "dash" /\ ~loading
  /\ page' = "new"
  /\ LeaveDash
  /\ msg' = ""
  /\ UNCHANGED <<storeVars, newVars, edit>>

\* the Home / Cancel link of the New Bet and ticket pages
GoHome ==
  /\ UNCHANGED otherVars
  /\ page \in {"new", "ticket"}
  /\ GoDash
  /\ msg' = ""
  /\ form' = NoForm /\ inserted' = {}
  /\ edit' = NoEdit
  /\ UNCHANGED storeVars

\* ------------------------------------------------------------- ticket page
\* effect of lines 912-916: the legs of a single ticket mirror singleStatus
MirrorLegs(ticket_type, ls, singleStatus) ==
  IF ticket_type = "single"
  THEN [i \in DOMAIN ls |->
          [ls[i] EXCEPT !.status = mapTicketStatusToLegStatus(singleStatus)]]
  ELSE ls

\* load() of the ticket page, reached from a ticket link of the dashboard;
\* o: "ok", "ticketErr" or "legsErr"
load(id, o) ==
  /\ UNCHANGED otherVars
  /\ page = "dash" /\ ~loading
  /\ id \in DOMAIN dashTickets
  /\ UNCHANGED <<storeVars, newVars>>
  /\ IF o = "ok" /\ id \in DOMAIN tickets
     THEN /\ page' = "ticket"
          /\ LeaveDash
          /\ msg' = ""
          /\ edit' = [id |-> id,
                      ticket_type |-> tickets[id].ticket_type,
                      legs |-> MirrorLegs(tickets[id].ticket_type, LegsOf(id),
                                          tickets[id].status),
                      singleStatus |-> tickets[id].status,
                      betInput |-> tickets[id].stake,
                      payoutInput |-> IF tickets[id].payout = Null THEN Null
                                      ELSE 10 * tickets[id].payout,
                      payoutEdited |-> FALSE,
                      league |-> tickets[id].league,
                      placedDate |-> tickets[id].placed_at]
     ELSE /\ o # "ok" \/ id \notin DOMAIN tickets
          /\ msg' = IF o = "legsErr" /\ id \in DOMAIN tickets
                    THEN "Error loading legs." ELSE "Ticket not found."
          /\ edit' = NoEdit
          /\ GoDash

derivedParlayStatusEdit(e) ==
  IF e.ticket_type # "parlay" THEN "null" ELSE DerivedParlayStatus(e.legs)

\* the computedPayoutProfit memo on the ticket page's state e
computedPayoutProfit(e) ==
  LET stakeNum == e.betInput
      derived == derivedParlayStatusEdit(e)
  IN IF e.payoutEdited /\ e.payoutInput # Null
     THEN LET payout == round2(e.payoutInput)
          IN [payout |-> payout, profit |-> round2(10 * (payout - stakeNum))]
     ELSE IF e.ticket_type = "single"
     THEN IF e.singleStatus \in {"open", "partial"}
          THEN [payout |-> Null, profit |-> Null]
          ELSE IF e.singleStatus \in {"push", "void"}
          THEN [payout |-> round2(10 * stakeNum), profit |-> 0]
          ELSE IF Len(e.legs) # 1
          THEN [payout |-> Null, profit |-> Null]
          ELSE IF e.singleStatus = "lost"
          THEN [payout |-> 0, profit |-> round2(10 * (0 - stakeNum))]
          ELSE LET payout == WonPayout(stakeNum,
                                americanToDecimal(e.legs[1].american_odds))
               IN [payout |-> payout, profit |-> round2(10 * (payout - stakeNum))]
     ELSE LET pStatus == IF derived = "null" THEN "open" ELSE derived
          IN IF pStatus = "open"
             THEN [payout |-> Null, profit |-> Null]
             ELSE IF pStatus \in {"push", "void"}
             THEN [payout |-> round2(10 * stakeNum), profit |-> 0]
             ELSE IF pStatus = "lost"
             THEN [payout |-> 0, profit |-> round2(10 * (0 - stakeNum))]
             ELSE LET payout == WonPayout(stakeNum, WinMultiplier(e.legs))
                  IN [payout |-> payout, profit |-> round2(10 * (payout - stakeNum))]

\* what the user typed into the ticket page before pressing Save: ch.touched
\* tells whether the payout field was edited (setPayoutEdited(true))
Typed(e, ch) ==
  [e EXCEPT !.singleStatus = ch.singleStatus,
            !.legs = MirrorLegs(e.ticket_type, e.legs, ch.singleStatus),
            !.betInput = ch.betInput,
            !.payoutInput = ch.payoutInput,
            !.payoutEdited = e.payoutEdited \/ ch.touched,
            !.league = ch.league,
            !.placedDate = ch.placedDate]

\* the typed values the page allows on state e: the status select of a parlay
\* is disabled, an untouched payout field keeps its text
EditChanges(e, bets, payouts, leagues, days) ==
  { ch \in [singleStatus : TicketStatus,
            betInput : bets \cup {e.betInput},
            touched : BOOLEAN,
            payoutInput : payouts \cup {e.payoutInput},
            league : leagues \cup {e.league},
            placedDate : days \cup {e.placedDate}] :
      /\ e.ticket_type = "parlay" => ch.singleStatus = e.singleStatus
      /\ ~ch.touched => ch.payoutInput = e.payoutInput }

UpdateRow(store, id, row) ==
  IF id \in DOMAIN store THEN [store EXCEPT ![id] = row] ELSE store

\* legs update({status}).eq("id", leg i of ticket id): no row, no change
UpdateLegStatus(id, i, st) ==
  IF id \in DOMAIN legs /\ i \in DOMAIN legs[id]
  THEN [legs EXCEPT ![id][i].status = st]
  ELSE legs

\* the row saveTicketEdits writes over row t from page state e
EditedRow(t, e) ==
  LET statusToStore == IF e.ticket_type = "parlay"
                       THEN (IF derivedParlayStatusEdit(e) = "null" THEN "open"
                             ELSE derivedParlayStatusEdit(e))
                       ELSE e.singleStatus
      pp == computedPayoutProfit(e)
  IN [t EXCEPT !.placed_at = e.placedDate,
               !.stake = e.betInput,
               !.league = e.league,
               !.status = statusToStore,
               !.payout = pp.payout,
               !.profit = pp.profit,
               !.settled_at = IF statusToStore \in {"open", "partial"}
                              THEN Null ELSE e.placedDate]

\* saveTicketEdits() after the user typed ch; o: "ok", "ticketErr" (tickets
\* update fails) or "legErr" (the single leg's status update fails)
saveTicketEdits(ch, o) ==
  /\ UNCHANGED otherVars
  /\ page = "ticket"
  /\ UNCHANGED <<profile, newVars, page, dashVars>>
  /\ LET e == Typed(edit, ch)
     IN IF e.placedDate = NoDate
        THEN /\ o = "ok"
             /\ msg' = "Please select a date."
             /\ UNCHANGED <<tickets, legs, edit>>
        ELSE IF e.betInput <= 0
        THEN /\ o = "ok"
             /\ msg' = "Please enter a valid bet amount."
             /\ UNCHANGED <<tickets, legs, edit>>
        ELSE \/ /\ o = "ticketErr"
                /\ msg' = "Failed to save"
                /\ UNCHANGED <<tickets, legs, edit>>
             \/ /\ o = "legErr"
                /\ e.ticket_type = "single" /\ Len(e.legs) >= 1
                /\ tickets' = UpdateRow(tickets, e.id, EditedRow(tickets[e.id], e))
                /\ msg' = "Saved ticket, but failed to sync single leg status."
                /\ edit' = e
                /\ UNCHANGED legs
             \/ /\ o = "ok"
                /\ tickets' = UpdateRow(tickets, e.id, EditedRow(tickets[e.id], e))
                /\ legs' = IF e.ticket_type = "single" /\ Len(e.legs) >= 1
                           THEN UpdateLegStatus(e.id, 1,
                                  mapTicketStatusToLegStatus(e.singleStatus))
                           ELSE legs
                /\ msg' = "Saved."
                /\ edit' = [e EXCEPT !.payoutEdited = FALSE]

\* saveLegStatus(leg i, st) from a leg's status select (disabled on a single)
saveLegStatus(i, st, o) ==
  /\ UNCHANGED otherVars
  /\ page = "ticket"
  /\ edit.ticket_type = "parlay"
  /\ i \in DOMAIN edit.legs
  /\ st # edit.legs[i].status
  /\ UNCHANGED <<tickets, profile, newVars, page, dashVars>>
  /\ \/ /\ o = "err"
        /\ msg' = "Failed to update leg."
        /\ UNCHANGED <<legs, edit>>
     \/ /\ o = "ok"
        /\ legs' = UpdateLegStatus(edit.id, i, st)
        /\ edit' = [edit EXCEPT !.legs[i].status = st]
        /\ msg' = ""

\* a delete that removes the ticket row first and its legs afterwards
deleteTicketRowFirst(o) ==
  /\ UNCHANGED otherVars
  /\ page = "ticket"
  /\ UNCHANGED <<profile, newVars>>
  /\ \/ /\ o = "tErr"
        /\ msg' = "Failed to delete ticket."
        /\ UNCHANGED <<tickets, legs, edit, page, dashVars>>
     \/ /\ o = "legErr"
        /\ tickets' = DeleteRow(tickets, edit.id)
        /\ msg' = "Failed to delete legs."
        /\ UNCHANGED <<legs, edit, page, dashVars>>
     \/ /\ o = "ok"
        /\ legs' = DeleteRow(legs, edit.id)
        /\ tickets' = DeleteRow(tickets, edit.id)
        /\ msg' = ""
        /\ edit' = NoEdit
        /\ GoDash

\* deleteTicket() once confirmed; o: "ok", "legErr" (legs delete fails) or
\* "tErr" (tickets delete fails)
deleteTicket(o) ==
  /\ UNCHANGED otherVars
  /\ page = "ticket"
  /\ UNCHANGED <<profile, newVars>>
  /\ \/ /\ o = "legErr"
        /\ msg' = "Failed to delete legs."
        /\ UNCHANGED <<tickets, legs, edit, page, dashVars>>
     \/ /\ o = "tErr"
        /\ legs' = DeleteRow(legs, edit.id)
        /\ msg' = "Failed to delete ticket."
        /\ UNCHANGED <<tickets, edit, page, dashVars>>
     \/ /\ o = "ok"
        /\ legs' = DeleteRow(legs, edit.id)
        /\ tickets' = DeleteRow(tickets, edit.id)
        /\ msg' = ""
        /\ edit' = NoEdit
        /\ GoDash

\* --------------------------------------------------------------- dashboard
\* loadTicketsAndLegs(); o: "ok" or "err" (the tickets select fails)
loadTicketsAndLegs(o) ==
  /\ UNCHANGED otherVars
  /\ page = "dash" /\ loading
  /\ loading' = FALSE
  /\ \/ /\ o = "ok"
        /\ dashTickets' = tickets
        /\ msg' = ""
     \/ /\ o = "err"
        /\ msg' = "tickets select failed"
        /\ UNCHANGED dashTickets
  /\ UNCHANGED <<storeVars, newVars, edit, page, profileLoading,
                 startingBankroll, filterVars>>

\* the Refresh button
Refresh ==
  /\ UNCHANGED otherVars
  /\ page = "dash" /\ ~loading
  /\ loading' = TRUE
  /\ msg' = ""
  /\ UNCHANGED <<storeVars, newVars, edit, page, dashTickets, profileLoading,
                 startingBankroll, filterVars>>

\* the patch quickSettle builds from the dashboard's copy t of the row
QuickPatch(t, status) ==
  [status |-> status,
   profit |-> IF status = "lost" THEN 0 - t.stake
              ELSE IF status \in {"push", "void"} THEN 0
              ELSE t.profit,
   payout |-> t.payout,
   settled_at |-> Today]

ApplyPatch(row, patch) ==
  [row EXCEPT !.status = patch.status, !.profit = patch.profit,
              !.payout = patch.payout, !.settled_at = patch.settled_at]

\* quickSettle(t, status) from a button of an open ticket's card; o: "ok" or
\* "err" (the tickets update fails).  On success the list is loaded again.
quickSettle(id, status, o) ==
  /\ UNCHANGED otherVars
  /\ page = "dash" /\ ~loading
  /\ id \in DOMAIN dashTickets
  /\ dashTickets[id].status = "open"
  /\ \/ /\ o = "err"
        /\ msg' = "tickets update failed"
        /\ UNCHANGED <<tickets, loading>>
     \/ /\ o = "ok"
        /\ tickets' = IF id \in DOMAIN tickets
                      THEN [tickets EXCEPT ![id] =
                              ApplyPatch(@, QuickPatch(dashTickets[id], status))]
                      ELSE tickets
        /\ loading' = TRUE
        /\ msg' = ""
  /\ UNCHANGED <<legs, profile, newVars, edit, page, dashTickets,
                 profileLoading, startingBankroll, filterVars>>

\* loadProfile(); r: the profiles select ("ok" or "err"), u: the upsert
loadProfile(r, u) ==
  /\ UNCHANGED otherVars
  /\ page = "dash" /\ profileLoading
  /\ profileLoading' = FALSE
  /\ IF r = "ok" /\ profile # Null
     THEN /\ u = "ok"
          /\ startingBankroll' = profile
          /\ UNCHANGED profile
     ELSE \/ /\ u = "ok"
             /\ profile' = 0
             /\ startingBankroll' = 0
          \/ /\ u = "err"
             /\ UNCHANGED <<profile, startingBankroll>>
  /\ msg' = ""
  /\ UNCHANGED <<tickets, legs, newVars, edit, page, dashTickets, loading,
                 filterVars>>

\* typing into the starting-bankroll input
setStartingBankroll(v) ==
  /\ UNCHANGED otherVars
  /\ page = "dash" /\ ~loading /\ ~profileLoading
  /\ v # startingBankroll
  /\ startingBankroll' = v
  /\ msg' = ""
  /\ UNCHANGED <<storeVars, newVars, edit, page, dashTickets, loading,
                 profileLoading, filterVars>>

\* saveStartingBankroll(); o: "ok" or "err"
saveStartingBankroll(o) ==
  /\ UNCHANGED otherVars
  /\ page = "dash" /\ ~loading /\ ~profileLoading
  /\ \/ /\ o = "ok"
        /\ profile' = startingBankroll
        /\ msg' = ""
     \/ /\ o = "err"
        /\ msg' = "profiles upsert failed"
        /\ UNCHANGED profile
  /\ UNCHANGED <<tickets, legs, newVars, edit, page, dashVars>>

LeagueFilters == {"ALL"} \cup Leagues
Presets == {"7D", "30D", "MTD", "LAST_MONTH", "ALL", "CUSTOM"}

setLeagueFilter(v) ==
  /\ UNCHANGED otherVars
  /\ page = "dash" /\ ~loading
  /\ v # leagueFilter
  /\ leagueFilter' = v
  /\ msg' = ""
  /\ UNCHANGED <<storeVars, newVars, edit, page, dashTickets, loading,
                 profileLoading, startingBankroll, preset, customStart, customEnd>>

setPreset(v) ==
  /\ UNCHANGED otherVars
  /\ page = "dash" /\ ~loading
  /\ v # preset
  /\ preset' = v
  /\ msg' = ""
  /\ UNCHANGED <<storeVars, newVars, edit, page, dashTickets, loading,
                 profileLoading, startingBankroll, leagueFilter, customStart,
                 customEnd>>

setCustomStart(v) ==
  /\ UNCHANGED otherVars
  /\ page = "dash" /\ ~loading /\ preset = "CUSTOM"
  /\ v # customStart
  /\ customStart' = v
  /\ msg' = ""
  /\ UNCHANGED <<storeVars, newVars, edit, page, dashTickets, loading,
                 profileLoading, startingBankroll, leagueFilter, preset, customEnd>>

setCustomEnd(v) ==
  /\ UNCHANGED otherVars
  /\ page = "dash" /\ ~loading /\ preset = "CUSTOM"
  /\ v # customEnd
  /\ customEnd' = v
  /\ msg' = ""
  /\ UNCHANGED <<storeVars, newVars, edit, page, dashTickets, loading,
                 profileLoading, startingBankroll, leagueFilter, preset,
                 customStart>>

\* ------------------------------------------------------ dashboard figures
\* the `range` memo as <<start, end>> days, <<Null, Null>> for all time
range ==
  IF preset = "ALL" THEN <<Null, Null>>
  ELSE IF preset = "CUSTOM" THEN <<customStart, customEnd>>
  ELSE IF preset = "7D" THEN <<Today - 6, Today>>
  ELSE IF preset = "30D" THEN <<Today - 29, Today>>
  ELSE IF preset = "MTD" THEN <<MonthStart, Today>>
  ELSE <<MonthStart - 30, MonthStart - 1>>

\* ids of the `ticketsFiltered` memo
ticketsFiltered ==
  { id \in DOMAIN dashTickets :
      /\ leagueFilter # "ALL" => dashTickets[id].league = leagueFilter
      /\ range[1] # Null =>
           /\ dashTickets[id].placed_at >= range[1]
           /\ dashTickets[id].placed_at < range[2] + 1 }

\* ids of the `settledTicketsInRange` memo
settledTicketsInRange == { id \in ticketsFiltered : dashTickets[id].status # "open" }

\* typeof t.profit === "number" ? t.profit : 0
ProfitOrZero(t) == IF t.profit = Null THEN 0 ELSE t.profit

\* the accumulation loops over a row list: sum of ProfitOrZero over ids
RECURSIVE SumProfit(_, _)
SumProfit(rows, ids) ==
  IF ids = {} THEN 0
  ELSE LET id == CHOOSE x \in ids : TRUE
       IN ProfitOrZero(rows[id]) + SumProfit(rows, ids \ {id})

\* totalBet += Number(t.stake || 0) over the rows ids
RECURSIVE SumStake(_, _)
SumStake(rows, ids) ==
  IF ids = {} THEN 0
  ELSE LET id == CHOOSE x \in ids : TRUE
       IN rows[id].stake + SumStake(rows, ids \ {id})

\* the `summary` memo: the totals in cents and the four counts its record
\* string is built from
summary ==
  LET settled == settledTicketsInRange
      count(st) == Cardinality({ id \in settled : dashTickets[id].status = st })
  IN [totalProfit |-> round2(10 * SumProfit(dashTickets, settled)),
      totalBet |-> round2(10 * SumStake(dashTickets, settled)),
      won |-> count("won"), lost |-> count("lost"),
      push |-> count("push"), voided |-> count("void")]

\* the count shown under "Record (range)": settledTicketsInRange.length
settledTicketsShown == Cardinality(settledTicketsInRange)

\* a bankroll added up over the filtered list instead of the full one
BankrollIdsFiltered == { id \in ticketsFiltered : dashTickets[id].status # "open" }

\* ids the `currentBankroll` memo adds up
BankrollIds == { id \in DOMAIN dashTickets : dashTickets[id].status # "open" }

currentBankroll == round2(10 * (startingBankroll + SumProfit(dashTickets, BankrollIds)))

\* a unit size rounded to the nearest step instead of down
computeUnitSizeNearest(prevMonthEndingBankroll) ==
  LET rounded == RoundDiv(prevMonthEndingBankroll * 5, 100 * 100 * UnitStep) * UnitStep
      nonNegative == IF rounded > 0 THEN rounded ELSE 0
  IN IF nonNegative < UnitCap THEN nonNegative ELSE UnitCap

\* unit size in whole dollars for a bankroll in cents
computeUnitSize(prevMonthEndingBankroll) ==
  LET roundedDown == ((prevMonthEndingBankroll * 5) \div (100 * 100 * UnitStep)) * UnitStep
      nonNegative == IF roundedDown > 0 THEN roundedDown ELSE 0
  IN IF nonNegative < UnitCap THEN nonNegative ELSE UnitCap

\* ids the `unitCard` memo adds up: prevEndIsoExclusive is the first local
\* midnight of the current month
UnitCardIds ==
  { id \in DOMAIN dashTickets :
      /\ dashTickets[id].status # "open"
      /\ ~(dashTickets[id].placed_at >= MonthStart) }

unitCardBankroll == round2(10 * (startingBankroll + SumProfit(dashTickets, UnitCardIds)))
unitCardUnitSize == computeUnitSize(unitCardBankroll)

\* loadUnit() of the New Bet page on the store: the rows its select returns
\* (.lt("placed_at", first local midnight of the month)) and the bankroll it
\* passes to computeUnitSize
LoadUnitIds == { id \in DOMAIN tickets : tickets[id].placed_at < MonthStart }
loadUnitBankroll ==
  round2(10 * ((IF profile = Null THEN 0 ELSE profile) + SumProfit(tickets, LoadUnitIds)))
loadUnitUnitSize == computeUnitSize(loadUnitBankroll)

\* the orders .sort((a, b) => (a.placed_at < b.placed_at ? -1 : 1)) can leave
\* the settledTicketsInRange rows in: ascending placed_at, rows of the same
\* placed_at in either order
GraphOrders ==
  LET n == Cardinality(settledTicketsInRange)
  IN { o \in [1..n -> settledTicketsInRange] :
         /\ \A i, j \in 1..n : i # j => o[i] # o[j]
         /\ \A i, j \in 1..n :
              i < j => dashTickets[o[i]].placed_at <= dashTickets[o[j]].placed_at }

\* cumProfit of the graphData loop after the k-th row of order o
RECURSIVE CumProfit(_, _)
CumProfit(o, k) ==
  IF k = 0 THEN 0
  ELSE CumProfit(o, k - 1) + ProfitOrZero(dashTickets[o[k]])

\* ticketDateForGrouping: the local calendar day of placed_at (placed_at is a
\* local midnight, kept here as its day)
ticketDateForGrouping(t) == t.placed_at

\* the rows of the `graphData` memo for the rows taken in order o
graphData(o) ==
  [k \in DOMAIN o |->
     [date |-> ticketDateForGrouping(dashTickets[o[k]]),
      Profit |-> round2(10 * CumProfit(o, k)),
      Bankroll |-> round2(10 * (startingBankroll + CumProfit(o, k)))]]

\* ---------------------------------------------------------- specifications
StartBankrolls == {0, 95000}

\* Spec: the three pages with every handler that writes tickets or legs, at
\* most MaxStored ticket rows at a time, one league and one day.
FormsAll == SingleForms(OddsInputs, {"NBA"}, {Today})
              \cup ParlayForms({-110}, {"NBA"}, {Today}) \cup InvalidForms

saveStored(f, o) ==
  /\ SaveRejection(f) = "" => Cardinality(DOMAIN tickets) < MaxStored
  /\ save(f, o)

Next ==
  \/ OpenNew
  \/ GoHome
  \/ \E f \in FormsAll, o \in {"ok", "ticketErr", "legsErr"} : saveStored(f, o)
  \/ \E id \in TicketIds, o \in {"ok", "ticketErr", "legsErr"} : load(id, o)
  \/ \E o \in {"ok", "ticketErr", "legErr"} :
       \E ch \in EditChanges(edit, {0}, PayoutInputs, {}, {NoDate}) :
          saveTicketEdits(ch, o)
  \/ \E i \in 1..MaxLegs, st \in LegStatus, o \in {"ok", "err"} : saveLegStatus(i, st, o)
  \/ \E o \in {"ok", "legErr", "tErr"} : deleteTicket(o)
  \/ \E o \in {"ok", "err"} : loadTicketsAndLegs(o)
  \/ Refresh
  \/ \E id \in TicketIds, st \in QuickStatuses, o \in {"ok", "err"} : quickSettle(id, st, o)

Spec == Init /\ [][Next]_vars

\* SpecNew: the New Bet page alone filling the store up to MaxTickets rows.
NextNew ==
  \/ OpenNew
  \/ GoHome
  \/ \E f \in FormsAll, o \in {"ok", "ticketErr", "legsErr"} : save(f, o)
  \/ \E o \in {"ok", "err"} : loadTicketsAndLegs(o)

SpecNew == Init /\ [][NextNew]_vars

\* SpecDash: single tickets of both leagues and every day created on the New
\* Bet page, and the dashboard's profile, filters and figures.
FormsDash ==
  { f \in SingleForms({-110}, Leagues, Days) : f.ticketStatus \in {"open", "partial", "won"} }

NextDash ==
  \/ OpenNew
  \/ GoHome
  \/ \E f \in FormsDash : save(f, "ok")
  \/ \E o \in {"ok", "err"} : loadTicketsAndLegs(o)
  \/ Refresh
  \/ \E r \in {"ok", "err"}, u \in {"ok", "err"} : loadProfile(r, u)
  \/ \E v \in StartBankrolls : setStartingBankroll(v)
  \/ \E o \in {"ok", "err"} : saveStartingBankroll(o)
  \/ \E v \in LeagueFilters : setLeagueFilter(v)
  \/ \E v \in Presets : setPreset(v)
  \/ \E v \in Days : setCustomStart(v)
  \/ \E v \in Days : setCustomEnd(v)

SpecDash == Init /\ [][NextDash]_vars

\* SpecEdit: single tickets created on the New Bet page and edited on the
\* ticket page, where the league, the date, the stake, the status and the
\* payout can be retyped before Save.
FormsEdit == SingleForms({-110}, {"NBA"}, {Today}) \cup InvalidForms
EditsTyped == EditChanges(edit, {0}, PayoutInputs, {""}, {NoDate})

NextEdit ==
  \/ OpenNew
  \/ GoHome
  \/ \E f \in FormsEdit, o \in {"ok", "ticketErr", "legsErr"} : saveStored(f, o)
  \/ \E o \in {"ok", "err"} : loadTicketsAndLegs(o)
  \/ \E id \in TicketIds, o \in {"ok", "ticketErr", "legsErr"} : load(id, o)
  \/ \E o \in {"ok", "ticketErr", "legErr"} :
       \E ch \in EditsTyped : saveTicketEdits(ch, o)

SpecEdit == Init /\ [][NextEdit]_vars

\* SpecQuick: quickSettle in its two steps, the click that sends the update
\* and the answer of the store, with open single tickets created on the New
\* Bet page.  The New Bet page is opened only while no update is in flight.
MaxInFlight == 2

\* quickSettle up to its await: a click on a quick-settle button of the card
\* of ticket id, which is enabled unless quickUpdatingId is this ticket
quickSettleClick(id, status) ==
  /\ page = "dash" /\ ~loading
  /\ id \in DOMAIN dashTickets
  /\ dashTickets[id].status = "open"
  /\ quickUpdatingId # id
  /\ Len(inFlight) < MaxInFlight
  /\ quickUpdatingId' = id
  /\ inFlight' = Append(inFlight,
                   [id |-> id, patch |-> QuickPatch(dashTickets[id], status)])
  /\ msg' = ""
  /\ UNCHANGED <<storeVars, newVars, edit, page, dashVars, calcVars, authVars>>

\* quickSettle after its await: the store answers the i-th update in flight
\* with o ("ok" or "err"); on success the list is loaded again
quickSettleAnswer(i, o) ==
  /\ page = "dash"
  /\ i \in DOMAIN inFlight
  /\ quickUpdatingId' = Null
  /\ inFlight' = SubSeq(inFlight, 1, i - 1) \o SubSeq(inFlight, i + 1, Len(inFlight))
  /\ \/ /\ o = "err"
        /\ msg' = "tickets update failed"
        /\ UNCHANGED <<tickets, loading>>
     \/ /\ o = "ok"
        /\ tickets' = IF inFlight[i].id \in DOMAIN tickets
                      THEN [tickets EXCEPT ![inFlight[i].id] =
                              ApplyPatch(@, inFlight[i].patch)]
                      ELSE tickets
        /\ loading' = TRUE
        /\ msg' = ""
  /\ UNCHANGED <<legs, profile, newVars, edit, page, dashTickets,
                 profileLoading, startingBankroll, filterVars, calcVars, authVars>>

OpenNewQuiet == QuickIdle /\ OpenNew

NextQuick ==
  \/ OpenNewQuiet
  \/ GoHome
  \/ save(BaseSingle, "ok")
  \/ \E o \in {"ok", "err"} : loadTicketsAndLegs(o)
  \/ \E id \in TicketIds, st \in QuickStatuses : quickSettleClick(id, st)
  \/ \E i \in 1..MaxInFlight, o \in {"ok", "err"} : quickSettleAnswer(i, o)

SpecQuick == Init /\ [][NextQuick]_vars

\* ------------------------------------------------- the auth storage adapter
getMode == IF localStorage[STORAGE_MODE_KEY] = "session" THEN "session" ELSE "local"

AuthFrame ==
  UNCHANGED <<storeVars, page, newVars, edit, dashVars, calcVars, quickVars>>

\* setAuthStorageMode(remember) called in tab t
setAuthStorageMode(t, remember) ==
  /\ localStorage' = [localStorage EXCEPT ![STORAGE_MODE_KEY] =
                        IF remember THEN "local" ELSE "session"]
  /\ UNCHANGED <<sessionStorage, tabs, lastSet, got, msg>>
  /\ AuthFrame

\* a setItem that leaves the copy in the other storage in place
SetItemStoresKeepStale(t, key, value) ==
  IF getMode = "session"
  THEN /\ sessionStorage' = [sessionStorage EXCEPT ![t][key] = value]
       /\ UNCHANGED localStorage
  ELSE /\ localStorage' = [localStorage EXCEPT ![key] = value]
       /\ UNCHANGED sessionStorage

\* what storage.setItem(key, value) of tab t does to the two storages
SetItemStores(t, key, value) ==
  IF getMode = "session"
  THEN /\ sessionStorage' = [sessionStorage EXCEPT ![t][key] = value]
       /\ localStorage' = [localStorage EXCEPT ![key] = NoItem]
  ELSE /\ localStorage' = [localStorage EXCEPT ![key] = value]
       /\ sessionStorage' = [sessionStorage EXCEPT ![t][key] = NoItem]

\* storage.setItem(key, value) called in tab t
setItem(t, key, value) ==
  /\ SetItemStores(t, key, value)
  /\ lastSet' = [lastSet EXCEPT ![t][key] = value]
  /\ UNCHANGED <<tabs, got, msg>>
  /\ AuthFrame

\* storage.removeItem(key) called in tab t
removeItem(t, key) ==
  /\ sessionStorage' = [sessionStorage EXCEPT ![t][key] = NoItem]
  /\ localStorage' = [localStorage EXCEPT ![key] = NoItem]
  /\ lastSet' = [lastSet EXCEPT ![t][key] = NoItem]
  /\ UNCHANGED <<tabs, got, msg>>
  /\ AuthFrame

\* storage.getItem(key) called in tab t:
\* sessionStorage.getItem(key) ?? localStorage.getItem(key)
getItem(t, key) ==
  /\ got' = [key |-> key,
             value |-> IF sessionStorage[t][key] # NoItem
                       THEN sessionStorage[t][key] ELSE localStorage[key]]
  /\ UNCHANGED <<localStorage, sessionStorage, tabs, lastSet, msg>>
  /\ AuthFrame

\* a tab on the login page: nothing of the ticket pages is mounted
InitAuth ==
  /\ tickets = NoTickets /\ legs = NoTickets /\ profile = Null
  /\ page = "login" /\ msg = "" /\ form = NoForm /\ inserted = {} /\ edit = NoEdit
  /\ dashTickets = NoTickets /\ loading = FALSE /\ profileLoading = FALSE
  /\ startingBankroll = 0 /\ leagueFilter = "ALL" /\ preset = "MTD"
  /\ customStart = 1 /\ customEnd = Today
  /\ calcIn = NoCalc /\ calcOut = NoCalc
  /\ QuickIdle
  /\ AuthIdle

\* SpecAuthOne: the calls of the adapter made in one tab
ItemValues == {"v1", "v2"}
NextAuthOne ==
  \/ \E remember \in BOOLEAN : setAuthStorageMode(1, remember)
  \/ \E key \in AuthKeys, value \in ItemValues : setItem(1, key, value)
  \/ \E key \in AuthKeys : removeItem(1, key)
  \/ \E key \in AuthKeys : getItem(1, key)

SpecAuthOne == InitAuth /\ [][NextAuthOne]_vars

\* the session values the auth client of tab t stores under its storage key:
\* the one of the sign-in and the one of a token refresh
TokensOf(t) ==
  IF t = 1 THEN <<"session-1", "session-1-refreshed">>
  ELSE <<"session-" \o ToString(t), "session-" \o ToString(t) \o "-refreshed">>

\* handleSubmit() in mode "signin" up to its await: the storage mode is set
\* from the "Keep me signed in" box, then the sign-in is sent
handleSubmit(t, email, remember) ==
  /\ tabs[t].pc = "idle"
  /\ IF email = ""
     THEN /\ msg' = "Please enter an email address."
          /\ UNCHANGED <<localStorage, tabs>>
     ELSE /\ msg' = ""
          /\ localStorage' = [localStorage EXCEPT ![STORAGE_MODE_KEY] =
                                IF remember THEN "local" ELSE "session"]
          /\ tabs' = [tabs EXCEPT ![t] = [pc |-> "signing", remember |-> remember]]
  /\ UNCHANGED <<sessionStorage, lastSet, got>>
  /\ AuthFrame

\* the sign-in of tab t is answered: o is "ok" (the auth client stores the
\* session with storage.setItem) or "err"
signInAnswer(t, o) ==
  /\ tabs[t].pc = "signing"
  /\ \/ /\ o = "ok"
        /\ SetItemStores(t, "sb-auth-token", TokensOf(t)[1])
        /\ lastSet' = [lastSet EXCEPT ![t]["sb-auth-token"] = TokensOf(t)[1]]
        /\ tabs' = [tabs EXCEPT ![t].pc = "in"]
        /\ msg' = ""
     \/ /\ o = "err"
        /\ tabs' = [tabs EXCEPT ![t].pc = "idle"]
        /\ msg' = "Invalid login credentials"
        /\ UNCHANGED <<localStorage, sessionStorage, lastSet>>
  /\ UNCHANGED got
  /\ AuthFrame

\* autoRefreshToken: the auth client of signed-in tab t stores a refreshed
\* session with storage.setItem
tokenRefresh(t) ==
  /\ tabs[t].pc = "in"
  /\ LET next == IF lastSet[t]["sb-auth-token"] = TokensOf(t)[1]
                 THEN TokensOf(t)[2] ELSE TokensOf(t)[1]
     IN /\ SetItemStores(t, "sb-auth-token", next)
        /\ lastSet' = [lastSet EXCEPT ![t]["sb-auth-token"] = next]
  /\ UNCHANGED <<tabs, got, msg>>
  /\ AuthFrame

\* SpecAuth: the tabs of one browser signing in on the login page
NextAuth ==
  \/ \E t \in Tabs, email \in {"", "a@b.c"}, remember \in BOOLEAN :
       handleSubmit(t, email, remember)
  \/ \E t \in Tabs, o \in {"ok", "err"} : signInAnswer(t, o)
  \/ \E t \in Tabs : tokenRefresh(t)
  \/ \E t \in Tabs, key \in AuthKeys : getItem(t, key)

SpecAuth == InitAuth /\ [][NextAuth]_vars

\* ------------------------------------------------------- the pure helpers
\* arguments of the helper calls
MaxCalcLegs == 3
MaxStake == 3
MaxOddsK == 8
MaxBankK == 10
OddsGrid == { 25 * k : k \in (0 - MaxOddsK)..MaxOddsK } \cup {-110, 120}
OddsArgs == OddsGrid \cup {NaN, PosInfinity, NegInfinity}
CalcOdds == {-110, 150, 999, 0, NaN}
CalcStakes == (1..MaxStake) \cup {5000, 10000}
StatusLists == UNION { [1..n -> [status : LegStatus]] : n \in 0..MaxCalcLegs }
\* bankrolls in cents: a grid of quarter steps around zero and the values at
\* the step and at the cap
UnitBankrolls ==
  { 25000 * k : k \in (0 - MaxBankK)..MaxBankK }
    \cup {-50000, 99999, 100000, 123000, 19999999, 20000000, 30000000}
CalcLegs(odds, lens) ==
  UNION { [1..n -> LegDrafts(odds, LegStatus)] : n \in lens }

CalcInputs ==
  { [tag |-> "derive", legs |-> ls] : ls \in StatusLists }
  \cup { [tag |-> "multiplier", ticketType |-> tt, legs |-> ls] :
           tt \in TicketType, ls \in CalcLegs(CalcOdds, 0..MaxLegs) }
  \cup { [tag |-> "payout", ticketType |-> "single", status |-> st,
          legs |-> <<l>>, stake |-> b] :
           st \in TicketStatus, b \in CalcStakes,
           l \in LegDrafts({-110, 120}, LegStatus) }
  \cup { [tag |-> "payout", ticketType |-> "parlay", status |-> "open",
          legs |-> ls, stake |-> b] :
           b \in CalcStakes, ls \in CalcLegs({-110, 120}, 2..MaxLegs) }
  \cup { [tag |-> "odds", o1 |-> a, o2 |-> b] : a \in OddsArgs, b \in OddsArgs }
  \cup { [tag |-> "unit", b1 |-> a, b2 |-> b] :
           a \in UnitBankrolls, b \in UnitBankrolls }

InitCalc ==
  /\ calcIn \in CalcInputs
  /\ calcOut = NoCalc
  /\ tickets = NoTickets /\ legs = NoTickets /\ profile = Null
  /\ page = "new" /\ msg = "" /\ form = NoForm /\ inserted = {} /\ edit = NoEdit
  /\ dashTickets = NoTickets /\ loading = FALSE /\ profileLoading = FALSE
  /\ startingBankroll = 0 /\ leagueFilter = "ALL" /\ preset = "MTD"
  /\ customStart = 1 /\ customEnd = Today
  /\ QuickIdle
  /\ AuthIdle

CalcFrame ==
  UNCHANGED <<storeVars, page, msg, newVars, edit, dashVars, calcIn,
              quickVars, authVars>>

\* derivedParlayStatus of the legs
derive ==
  /\ calcIn.tag = "derive" /\ calcOut = NoCalc
  /\ calcOut' = [status |-> DerivedParlayStatus(calcIn.legs)]
  /\ CalcFrame

\* the multiplier memo
resolveMultiplier ==
  /\ calcIn.tag = "multiplier" /\ calcOut = NoCalc
  /\ calcOut' = multiplier(calcIn.ticketType, calcIn.legs)
  /\ CalcFrame

\* the legs as the page holds them: those of a single mirror its status
CalcPageLegs ==
  MirrorLegs(calcIn.ticketType, calcIn.legs, calcIn.status)

\* computePayoutProfitForCreate without a manual payout
createPayout ==
  /\ calcIn.tag = "payout" /\ calcOut = NoCalc
  /\ LET derived == IF calcIn.ticketType = "parlay"
                    THEN DerivedParlayStatus(calcIn.legs) ELSE "null"
         statusToStore == IF calcIn.ticketType = "parlay" THEN derived
                          ELSE calcIn.status
         r == computePayoutProfitForCreate(calcIn.ticketType, calcIn.stake,
                statusToStore, CalcPageLegs, Null, derived)
     IN calcOut' = [by |-> "create", status |-> statusToStore,
                    payout |-> r.payout, profit |-> r.profit]
  /\ CalcFrame

\* the computedPayoutProfit memo with the payout field untouched
editPayout ==
  /\ calcIn.tag = "payout" /\ calcOut = NoCalc
  /\ LET e == [NoEdit EXCEPT !.ticket_type = calcIn.ticketType,
                             !.legs = CalcPageLegs,
                             !.singleStatus = calcIn.status,
                             !.betInput = calcIn.stake]
         r == computedPayoutProfit(e)
     IN calcOut' = [by |-> "edit",
                    status |-> IF calcIn.ticketType = "parlay"
                               THEN derivedParlayStatusEdit(e) ELSE calcIn.status,
                    payout |-> r.payout, profit |-> r.profit]
  /\ CalcFrame

\* americanToDecimal of both odds
toDecimal ==
  /\ calcIn.tag = "odds" /\ calcOut = NoCalc
  /\ calcOut' = [d1 |-> americanToDecimal(calcIn.o1),
                 d2 |-> americanToDecimal(calcIn.o2)]
  /\ CalcFrame

\* computeUnitSize of both bankrolls
unitSize ==
  /\ calcIn.tag = "unit" /\ calcOut = NoCalc
  /\ calcOut' = [u1 |-> computeUnitSize(calcIn.b1),
                 u2 |-> computeUnitSize(calcIn.b2)]
  /\ CalcFrame

NextCalc ==
  \/ unitSize
  \/ derive
  \/ resolveMultiplier
  \/ createPayout
  \/ editPayout
  \/ toDecimal

SpecCalc == InitCalc /\ [][NextCalc]_vars

\* ------------------------------------------------------------------ claims
Terminal == {"won", "lost", "push", "void"}

\* C1: for every stored ticket, payout and profit are both null or both
\* non-null.
C1_PayoutProfitJointlyNull ==
  \A id \in DOMAIN tickets :
    (tickets[id].payout = Null) <=> (tickets[id].profit = Null)

\* C2: for every stored ticket whose payout is non-null, profit equals payout
\* minus stake.
C2_ProfitIsPayoutMinusStake ==
  \A id \in DOMAIN tickets :
    tickets[id].payout # Null =>
      tickets[id].profit = tickets[id].payout - tickets[id].stake

\* C3: every stored parlay ticket has the status derived from its stored legs.
\* Stated for the parlays whose legs are stored, so that a violation does not
\* rest on the leg insert that failed (C6).
C3_ParlayStatusDerived ==
  \A id \in DOMAIN tickets :
    (tickets[id].ticket_type = "parlay" /\ Len(LegsOf(id)) >= 2) =>
      tickets[id].status = DerivedParlayStatus(LegsOf(id))

\* C4: the leg of every stored single ticket has the status mapped from the
\* ticket status.
C4_SingleLegMirrorsTicket ==
  \A id \in DOMAIN tickets :
    tickets[id].ticket_type = "single" =>
      \A i \in DOMAIN LegsOf(id) :
        LegsOf(id)[i].status = mapTicketStatusToLegStatus(tickets[id].status)

\* C5: settled_at is null whenever the status is open or partial and non-null
\* whenever the status is won, lost, push or void.
C5_SettledAtFollowsStatus ==
  \A id \in DOMAIN tickets :
    /\ tickets[id].status \in {"open", "partial"} => tickets[id].settled_at = Null
    /\ tickets[id].status \in Terminal => tickets[id].settled_at # Null

\* C6: every stored single ticket has exactly one leg and every stored parlay
\* ticket has at least two legs.
C6_LegCountFitsType ==
  \A id \in DOMAIN tickets :
    /\ tickets[id].ticket_type = "single" => Len(LegsOf(id)) = 1
    /\ tickets[id].ticket_type = "parlay" => Len(LegsOf(id)) >= 2

\* C7: a step of save, saveTicketEdits or deleteTicket that reports a failed
\* store call leaves the tickets and the legs of the store as they were.
StoreFailureMsgs ==
  {"Error saving ticket", "Ticket saved, but legs failed to save.",
   "Failed to save", "Saved ticket, but failed to sync single leg status.",
   "Failed to delete legs.", "Failed to delete ticket."}
C7_FailedWriteLeavesStore ==
  [][msg' \in StoreFailureMsgs => (tickets' = tickets /\ legs' = legs)]_vars

\* C8: the saves of one New Bet form insert at most one ticket row, also when
\* save is pressed again after the leg insert was reported as failed.
C8_OneTicketPerForm == Cardinality(inserted) <= 1

\* C9: currentBankroll is startingBankroll plus the profit of every ticket of
\* the dashboard's full list that the dashboard counts as settled (status other
\* than open), and no change of the league filter, the preset or the custom
\* dates changes it.
RECURSIVE ProfitUpTo(_)
ProfitUpTo(n) ==
  IF n = 0 THEN 0
  ELSE ProfitUpTo(n - 1)
       + (IF /\ n \in DOMAIN dashTickets
             /\ dashTickets[n].status # "open"
             /\ dashTickets[n].profit # Null
          THEN dashTickets[n].profit ELSE 0)
ProfileOrZero == IF profile = Null THEN 0 ELSE profile
SettledBeforeMonth ==
  { id \in DOMAIN tickets :
      tickets[id].status # "open" /\ tickets[id].placed_at < MonthStart }
C10_SameUnitBankroll ==
  (/\ page = "dash" /\ ~loading /\ ~profileLoading
   /\ dashTickets = tickets /\ startingBankroll = ProfileOrZero)
  => /\ unitCardBankroll = ProfileOrZero + SumProfit(tickets, SettledBeforeMonth)
     /\ loadUnitBankroll = ProfileOrZero + SumProfit(tickets, SettledBeforeMonth)
     /\ unitCardUnitSize = loadUnitUnitSize
\* the conclusion alone: both pages show the same unit size
C10_SameUnitSize ==
  (/\ page = "dash" /\ ~loading /\ ~profileLoading
   /\ dashTickets = tickets /\ startingBankroll = ProfileOrZero)
  => unitCardUnitSize = loadUnitUnitSize

\* C11: for every league filter and bounded range, the running bankroll of the
\* graph series starts from startingBankroll plus the profit of the
\* league-matching tickets placed before the range start, and the cumulative
\* profit starts from 0: the k-th point shows that baseline plus the profit of
\* the first k rows, and the profit of the first k rows.  The baseline counts
\* the tickets of a terminal status (unsettled tickets contribute 0).
baselineBankroll ==
  startingBankroll
    + SumProfit(dashTickets,
        { id \in DOMAIN dashTickets :
            /\ leagueFilter # "ALL" => dashTickets[id].league = leagueFilter
            /\ dashTickets[id].status \in Terminal
            /\ dashTickets[id].placed_at < range[1] })
C11_GraphStartsAtBaseline ==
  (page = "dash" /\ ~loading /\ range[1] # Null) =>
    \A o \in GraphOrders :
      \A k \in DOMAIN graphData(o) :
        /\ graphData(o)[k].Bankroll = round2(10 * (baselineBankroll + CumProfit(o, k)))
        /\ graphData(o)[k].Profit = round2(10 * CumProfit(o, k))

\* C12: the graph series has exactly one point per calendar day of the
\* selected range, in ascending date order.
C12_OnePointPerDay ==
  (page = "dash" /\ ~loading /\ range[1] # Null /\ range[1] <= range[2]) =>
    \A o \in GraphOrders :
      /\ Len(graphData(o)) = range[2] - range[1] + 1
      /\ \A k \in DOMAIN graphData(o) : graphData(o)[k].date = range[1] + k - 1
\* part of C12: no two points of the series share a date
C12_NoSharedDate ==
  (page = "dash" /\ ~loading) =>
    \A o \in GraphOrders :
      \A j, k \in DOMAIN graphData(o) :
        j # k => graphData(o)[j].date # graphData(o)[k].date

\* C13: the derived parlay status of a list of leg statuses is the result of
\* the first matching rule (any lost: lost; any open: open; all void or push:
\* push; any won: won; otherwise push); [won, lost, open] gives lost, the empty
\* list gives push, and the result is never void or partial.
LegStatusesOf(ls) == { ls[i].status : i \in DOMAIN ls }
C13_DerivedStatusFirstRule ==
  (calcIn.tag = "derive" /\ calcOut # NoCalc) =>
    LET st == LegStatusesOf(calcIn.legs)
    IN /\ calcOut.status =
            (IF "lost" \in st THEN "lost"
             ELSE IF "open" \in st THEN "open"
             ELSE IF st \subseteq {"void", "push"} THEN "push"
             ELSE IF "won" \in st THEN "won"
             ELSE "push")
       /\ calcOut.status \notin {"void", "partial"}
       /\ calcIn.legs = <<[status |-> "won"], [status |-> "lost"], [status |-> "open"]>>
            => calcOut.status = "lost"
       /\ calcIn.legs = <<>> => calcOut.status = "push"
C13_Witness ==
  /\ calcIn.tag = "derive"
  /\ calcIn.legs = <<[status |-> "won"], [status |-> "lost"], [status |-> "open"]>>
  /\ calcOut # NoCalc /\ calcOut.status = "lost"

\* C14: the multiplier resolver reports a parlay as valid if and only if it
\* has at least two legs and every leg, whatever its status, has finite
\* nonzero odds.
C14_ParlayValidIffAllOddsValid ==
  (calcIn.tag = "multiplier" /\ calcIn.ticketType = "parlay" /\ calcOut # NoCalc) =>
    (calcOut.multiplierValid <=>
       /\ Len(calcIn.legs) >= 2
       /\ \A i \in DOMAIN calcIn.legs :
            /\ NumberIsFinite(calcIn.legs[i].american_odds)
            /\ calcIn.legs[i].american_odds # 0)

\* C15: the multiplier of a parlay (two or more legs, finite nonzero odds on
\* the legs that count) is the product of the decimal odds of exactly the legs
\* that are neither push nor void, in the multiplier memo and in the reduce
\* of computePayoutProfitForCreate; replacing the odds of a push or void leg
\* by another nonzero value leaves it unchanged.
CountedLegs(ls) == { i \in DOMAIN ls : ls[i].status \notin {"push", "void"} }
RECURSIVE DecimalProduct(_, _)
DecimalProduct(ls, idx) ==
  IF idx = {} THEN <<1, 1>>
  ELSE LET i == CHOOSE x \in idx : TRUE
           o == ls[i].american_odds
           rest == DecimalProduct(ls, idx \ {i})
       IN IF o > 0 THEN FracMul(rest, <<100 + o, 100>>)
          ELSE FracMul(rest, <<100 - o, 0 - o>>)
SameFraction(a, b) ==
  a[2] # 0 /\ b[2] # 0 /\ FracMul(a, <<1, 1>>) = FracMul(b, <<1, 1>>)
CountedOddsValid(ls) ==
  \A i \in CountedLegs(ls) :
    NumberIsFinite(ls[i].american_odds) /\ ls[i].american_odds # 0
C15_MultiplierSkipsPushVoid ==
  (/\ calcIn.tag = "multiplier" /\ calcIn.ticketType = "parlay" /\ calcOut # NoCalc
   /\ Len(calcIn.legs) >= 2 /\ CountedOddsValid(calcIn.legs)) =>
    /\ SameFraction(calcOut.multiplier,
                    DecimalProduct(calcIn.legs, CountedLegs(calcIn.legs)))
    /\ \A i \in DOMAIN calcIn.legs \ CountedLegs(calcIn.legs) :
         \A o \in {-110, 150, 999} :
           LET changed == [calcIn.legs EXCEPT ![i].american_odds = o]
           IN /\ SameFraction(multiplier("parlay", changed).multiplier,
                              calcOut.multiplier)
              /\ SameFraction(WinMultiplier(changed), calcOut.multiplier)
C15_Witness ==
  /\ calcIn.tag = "multiplier" /\ calcIn.ticketType = "parlay"
  /\ Len(calcIn.legs) = 2
  /\ calcIn.legs[1].american_odds = -110 /\ calcIn.legs[1].status = "open"
  /\ calcIn.legs[2].american_odds = 150 /\ calcIn.legs[2].status = "push"
  /\ calcOut # NoCalc
  /\ SameFraction(calcOut.multiplier, <<210, 110>>)

\* C16: a save that carries a manual payout, on create or on edit, stores
\* payout = round2(override) and profit = round2(payout - stake) whatever the
\* status, and sets settled_at unless the stored status is open, in which case
\* settled_at stays null.
ManualPayoutRowOk(row, override) ==
  /\ row.payout = round2(override)
  /\ row.profit = row.payout - row.stake
  /\ (row.settled_at = Null) <=> (row.status = "open")
C16_ManualPayoutStored ==
  [][/\ \A f \in FormsAll :
          (f.actualPayout # Null /\ SaveRejection(f) = "" /\ saveStored(f, "ok"))
            => ManualPayoutRowOk(tickets'[NewId], f.actualPayout)
     /\ \A ch \in EditChanges(edit, {0}, PayoutInputs, {}, {NoDate}) :
          (/\ page = "ticket" /\ edit.id \in DOMAIN tickets
           /\ ch.touched /\ ch.payoutInput # Null
           /\ saveTicketEdits(ch, "ok") /\ msg' = "Saved.")
            => ManualPayoutRowOk(tickets'[edit.id], ch.payoutInput)]_vars

\* C17: with no manual payout and status won, payout = round2(stake x
\* multiplier), the multiplier being the single leg's decimal odds or the
\* product over the parlay legs that are not push or void, and profit =
\* payout - stake; stake 100 at -110 gives 190.91 and 90.91, and the parlay
\* (-110 won, +120 push) with stake 50 gives won, 95.45 and 45.45.
\* payout p is stake x num/den rounded half up to the cent:
\* p <= stake x num/den + 1/2 < p + 1
C17_WonPayoutRounded ==
  (calcIn.tag = "payout" /\ calcOut # NoCalc /\ calcOut.status = "won") =>
    LET ls == CalcPageLegs
        mult == IF calcIn.ticketType = "single"
                THEN DecimalProduct(ls, {1})
                ELSE DecimalProduct(ls, CountedLegs(ls))
        p == calcOut.payout
    IN /\ p # Null
       /\ 2 * p * mult[2] <= 2 * calcIn.stake * mult[1] + mult[2]
       /\ 2 * calcIn.stake * mult[1] + mult[2] < 2 * (p + 1) * mult[2]
       /\ calcOut.profit = p - calcIn.stake
       /\ (/\ calcIn.ticketType = "single" /\ calcIn.stake = 10000
           /\ ls[1].american_odds = -110)
            => (p = 19091 /\ calcOut.profit = 9091)
       /\ (/\ calcIn.ticketType = "parlay" /\ calcIn.stake = 5000
           /\ Len(ls) = 2
           /\ ls[1].american_odds = -110 /\ ls[1].status = "won"
           /\ ls[2].american_odds = 120 /\ ls[2].status = "push")
            => (p = 9545 /\ calcOut.profit = 4545)
C17_Witness ==
  /\ calcIn.tag = "payout" /\ calcIn.ticketType = "parlay" /\ calcIn.stake = 5000
  /\ Len(calcIn.legs) = 2
  /\ calcIn.legs[1].american_odds = -110 /\ calcIn.legs[1].status = "won"
  /\ calcIn.legs[2].american_odds = 120 /\ calcIn.legs[2].status = "push"
  /\ calcOut # NoCalc /\ calcOut.by = "edit"
  /\ calcOut.status = "won" /\ calcOut.payout = 9545 /\ calcOut.profit = 4545

\* C18: for every stake s > 0 in whole cents, status push or void with no
\* manual payout yields profit 0 and payout s, for a single ticket and for a
\* parlay whose derived status is push, on create and on edit.
C18_PushVoidReturnsStake ==
  (/\ calcIn.tag = "payout" /\ calcOut # NoCalc
   /\ calcOut.status \in {"push", "void"}) =>
    (calcOut.profit = 0 /\ calcOut.payout = calcIn.stake)
C18_Witness ==
  /\ calcIn.tag = "payout" /\ calcIn.ticketType = "parlay" /\ calcIn.stake = 1
  /\ calcOut # NoCalc /\ calcOut.by = "create" /\ calcOut.status = "push"
  /\ calcOut.payout = 1 /\ calcOut.profit = 0

\* C19: americanToDecimal(o) is 1 + o/100 for every finite o > 0 and
\* 1 + 100/|o| for every finite o < 0, so every value it returns is greater
\* than 1; for o = 0 and for every o that is not finite it throws.
C19_AmericanToDecimal ==
  (calcIn.tag = "odds" /\ calcOut # NoCalc) =>
    LET o == calcIn.o1
        d == calcOut.d1
    IN /\ (NumberIsFinite(o) /\ o > 0) =>
            (d # Throws /\ d[2] > 0 /\ 100 * d[1] = (100 + o) * d[2])
       /\ (NumberIsFinite(o) /\ o < 0) =>
            (d # Throws /\ d[2] > 0 /\ (0 - o) * d[1] = ((0 - o) + 100) * d[2])
       /\ d # Throws => d[1] > d[2]
       /\ (o = 0 \/ ~NumberIsFinite(o)) => d = Throws
C19_Witness ==
  /\ calcIn.tag = "odds" /\ calcIn.o1 = 0 /\ calcIn.o2 = -110
  /\ calcOut # NoCalc
  /\ calcOut.d1 = Throws /\ calcOut.d2 = <<210, 110>>

\* C20, as stated: for odds o1 < o2 both positive americanToDecimal(o1) <
\* americanToDecimal(o2); for o1 < o2 both negative americanToDecimal(o1) >
\* americanToDecimal(o2).
FracLess(a, b) == a[1] * b[2] < b[1] * a[2]
C20_DecimalMonotone ==
  (/\ calcIn.tag = "odds" /\ calcOut # NoCalc
   /\ NumberIsFinite(calcIn.o1) /\ NumberIsFinite(calcIn.o2)
   /\ calcIn.o1 < calcIn.o2) =>
    /\ calcIn.o1 > 0 => FracLess(calcOut.d1, calcOut.d2)
    /\ calcIn.o2 < 0 => FracLess(calcOut.d2, calcOut.d1)
\* C20, amended: americanToDecimal is strictly increasing on the positive odds
\* and strictly increasing on the negative odds: for o1 < o2 of the same sign
\* americanToDecimal(o1) < americanToDecimal(o2).
C20_DecimalIncreasing ==
  (/\ calcIn.tag = "odds" /\ calcOut # NoCalc
   /\ NumberIsFinite(calcIn.o1) /\ NumberIsFinite(calcIn.o2)
   /\ calcIn.o1 < calcIn.o2) =>
    /\ calcIn.o1 > 0 => FracLess(calcOut.d1, calcOut.d2)
    /\ calcIn.o2 < 0 => FracLess(calcOut.d1, calcOut.d2)
C20_Witness ==
  /\ calcIn.tag = "odds" /\ calcIn.o1 = -200 /\ calcIn.o2 = -100
  /\ calcOut # NoCalc
  /\ calcOut.d1 = <<300, 200>> /\ calcOut.d2 = <<200, 100>>
  /\ FracLess(calcOut.d1, calcOut.d2)

\* C21: computeUnitSize(b) is min(10000, max(0, floor(b x 0.05 / 50) x 50)):
\* a multiple of 50 within [0, 10000], the largest one not above 5% of b
\* between the two clamps, non-decreasing in b, with computeUnitSize(0) = 0,
\* computeUnitSize(-500) = 0, computeUnitSize(1000) = 50,
\* computeUnitSize(1230) = 50 and computeUnitSize(300000) = 10000.
\* Bankrolls are in cents: 5% of b is at least u dollars iff b >= 2000 x u.
C21_UnitSize ==
  (calcIn.tag = "unit" /\ calcOut # NoCalc) =>
    LET b == calcIn.b1
        u == calcOut.u1
    IN /\ u \in { 50 * k : k \in 0..200 }
       /\ b < 100000 => u = 0
       /\ b >= 20000000 => u = 10000
       /\ (b >= 100000 /\ b < 20000000) => (2000 * u <= b /\ b < 2000 * (u + 50))
       /\ calcIn.b1 <= calcIn.b2 => calcOut.u1 <= calcOut.u2
       /\ b = 0 => u = 0
       /\ b = -50000 => u = 0
       /\ b = 100000 => u = 50
       /\ b = 123000 => u = 50
       /\ b = 30000000 => u = 10000
C21_Witness ==
  /\ calcIn.tag = "unit" /\ calcIn.b1 = 123000 /\ calcIn.b2 = 30000000
  /\ calcOut # NoCalc /\ calcOut.u1 = 50 /\ calcOut.u2 = 10000

\* C22: neither save nor saveTicketEdits writes to the store when a selection
\* is empty, the stake is not a finite number greater than 0, the leg count
\* does not fit the ticket type, or the league is unset: the operation is
\* rejected with a message and the tickets and legs of the store are unchanged.
LegCountFits(ticketType, ls) ==
  IF ticketType = "single" THEN Len(ls) = 1 ELSE Len(ls) >= 2
InputInvalid(ticketType, ls, stake, league) ==
  \/ \E i \in DOMAIN ls : ls[i].selection = ""
  \/ stake <= 0
  \/ ~LegCountFits(ticketType, ls)
  \/ league = ""
RejectionMsgs ==
  {"Please select a date.", "Please select a league.",
   "Please fill all selections.", "Single must have exactly 1 leg.",
   "Parlay must have 2+ legs.", "Invalid odds detected.",
   "Please enter a valid bet amount."}
Rejected == tickets' = tickets /\ legs' = legs /\ msg' \in RejectionMsgs
C22_InvalidInputRejected ==
  [][/\ \A f \in FormsEdit, o \in {"ok", "ticketErr", "legsErr"} :
          (/\ InputInvalid(f.ticketType, f.legs, f.betInput, f.league)
           /\ saveStored(f, o)) => Rejected
     /\ \A ch \in EditsTyped, o \in {"ok", "ticketErr", "legErr"} :
          (/\ page = "ticket"
           /\ LET e == Typed(edit, ch)
              IN InputInvalid(e.ticket_type, e.legs, e.betInput, e.league)
           /\ saveTicketEdits(ch, o)) => Rejected]_vars

\* C23: deleteTicket deletes the legs before the ticket row and removes the
\* ticket row only when the legs delete succeeded: whichever step fails, a
\* deleteTicket step leaves no stored leg whose ticket row is gone.
C23_DeleteLeavesNoOrphanLeg ==
  [][\A o \in {"ok", "legErr", "tErr"} :
       deleteTicket(o) =>
         /\ \A id \in DOMAIN legs' : id \in DOMAIN tickets'
         /\ tickets' # tickets => edit.id \notin DOMAIN legs'
         /\ o = "legErr" => (tickets' = tickets /\ legs' = legs)]_vars
\* the tickets delete failed after the legs of a parlay were deleted
C23_Witness ==
  /\ page = "ticket" /\ msg = "Failed to delete ticket."
  /\ edit.id \in DOMAIN tickets /\ edit.id \notin DOMAIN legs
  /\ Len(edit.legs) >= 2

\* C24: every stored ticket whose status is won, lost, push or void has a
\* non-null payout and a non-null profit, after any sequence of create,
\* edit-page Save and dashboard quick-settle.
C24_TerminalHasPayoutAndProfit ==
  \A id \in DOMAIN tickets :
    tickets[id].status \in Terminal =>
      (tickets[id].payout # Null /\ tickets[id].profit # Null)

\* C25: opening a stored ticket on the edit page and pressing Save without
\* changing any field leaves its stored status, stake, payout and profit
\* unchanged, and pressing Save again right after a Save stores the same
\* payout and profit, also for a ticket whose payout was entered manually.
NoChange ==
  [singleStatus |-> edit.singleStatus, betInput |-> edit.betInput,
   touched |-> FALSE, payoutInput |-> edit.payoutInput,
   league |-> edit.league, placedDate |-> edit.placedDate]
Opened ==
  /\ page = "ticket" /\ edit.id \in DOMAIN tickets
  /\ ~edit.payoutEdited
  /\ edit.singleStatus = tickets[edit.id].status
  /\ edit.betInput = tickets[edit.id].stake
  /\ edit.payoutInput = (IF tickets[edit.id].payout = Null THEN Null
                         ELSE 10 * tickets[edit.id].payout)
  /\ edit.league = tickets[edit.id].league
  /\ edit.placedDate = tickets[edit.id].placed_at
C25_SaveWithoutChangeKeepsRow ==
  [][/\ (Opened /\ saveTicketEdits(NoChange, "ok")) =>
          /\ tickets'[edit.id].status = tickets[edit.id].status
          /\ tickets'[edit.id].stake = tickets[edit.id].stake
          /\ tickets'[edit.id].payout = tickets[edit.id].payout
          /\ tickets'[edit.id].profit = tickets[edit.id].profit
     /\ (/\ page = "ticket" /\ edit.id \in DOMAIN tickets /\ msg = "Saved."
         /\ saveTicketEdits(NoChange, "ok")) =>
          /\ tickets'[edit.id].payout = tickets[edit.id].payout
          /\ tickets'[edit.id].profit = tickets[edit.id].profit]_vars

\* C26: loadProfile creates a profile with starting_bankroll 0 only when the
\* user has none; it never changes the stored starting_bankroll of a profile
\* that exists, also when its read of the profile fails.
C26_LoadProfileKeepsProfile ==
  [][\A r \in {"ok", "err"}, u \in {"ok", "err"} :
       loadProfile(r, u) =>
         /\ profile # Null => profile' = profile
         /\ profile = Null => profile' \in {Null, 0}]_vars

\* C27: in the range summary the tickets counted as settled are exactly the
\* in-range tickets of status won, lost, push or void: totalBet is the sum of
\* the stakes of those tickets only, and the settled-ticket count shown equals
\* wins + losses + pushes + voids of the record.
TerminalInRange == { id \in ticketsFiltered : dashTickets[id].status \in Terminal }
C27_SummaryCountsTerminalOnly ==
  (page = "dash" /\ ~loading) =>
    /\ settledTicketsInRange = TerminalInRange
    /\ summary.totalBet = SumStake(dashTickets, TerminalInRange)
    /\ settledTicketsShown
         = summary.won + summary.lost + summary.push + summary.voided

\* C28: while a quick-settle update for a ticket is in flight, the ticket's
\* quick-settle buttons stay disabled (quickUpdatingId is that ticket), so at
\* most one quick-settle update per ticket is outstanding, whatever
\* quick-settles of other tickets start or finish in the meantime.
C28_OneQuickSettlePerTicket ==
  /\ \A i \in DOMAIN inFlight : quickUpdatingId = inFlight[i].id
  /\ \A i, j \in DOMAIN inFlight : inFlight[i].id = inFlight[j].id => i = j
\* the conclusion alone: no ticket has two updates outstanding
C28_NoTwoUpdatesOfOneTicket ==
  \A i, j \in DOMAIN inFlight : inFlight[i].id = inFlight[j].id => i = j

\* C29: after any sequence of setAuthStorageMode, setItem and removeItem calls
\* in one tab, getItem(k) returns the value of the most recent setItem(k, v)
\* that no removeItem(k) followed, and null if there is none, whatever mode
\* switches happened in between.
C29_GetItemReturnsLastSet ==
  [][\A key \in AuthKeys :
       getItem(1, key) => got'.value = lastSet[1][key]]_vars
\* a value set in session mode is read back after a switch to local mode
C29_Witness ==
  /\ got.key = "sb-auth-token" /\ got.value = "v2"
  /\ localStorage[STORAGE_MODE_KEY] = "local"
  /\ sessionStorage[1]["sb-auth-token"] = "v2"
  /\ localStorage["sb-auth-token"] = NoItem
  /\ lastSet[1]["sb-auth-token-code-verifier"] = NoItem
  /\ localStorage["sb-auth-token-code-verifier"] = NoItem

\* C30: when a tab signed in with "Keep me signed in" unchecked, every later
\* setItem of that tab (a token refresh) writes its session value to the
\* tab's sessionStorage only and never to localStorage, whatever
\* setAuthStorageMode calls the other tabs make in between.
C30_SessionOnlyStaysOutOfLocal ==
  [][\A t \in Tabs :
       (tabs[t].pc = "in" /\ ~tabs[t].remember /\ tokenRefresh(t)) =>
         /\ localStorage'["sb-auth-token"]
              \notin {TokensOf(t)[1], TokensOf(t)[2]}
         /\ sessionStorage'[t]["sb-auth-token"]
              \in {TokensOf(t)[1], TokensOf(t)[2]}]_vars

====
